---- MODULE Spec2Model ----
(***************************************************************************)
(* Model of PDFLoader (DB.py): the ingestion pipeline run by the           *)
(* constructor (credential validation, partitioning, chunk classification, *)
(* summarisation with its pacing counter) and the dual-representation      *)
(* index built by bind_data (summary collection vDB + content store        *)
(* docDB, linked by generated identifiers).                                *)
(*                                                                         *)
(* Python values are modelled as records: a str s is Str(s), an            *)
(* unstructured element is [type, id, orig].  uuid4 strings are modelled   *)
(* as natural numbers drawn in order from an unbounded fresh supply.       *)
(***************************************************************************)
EXTENDS Integers, Sequences, FiniteSets, TLC

VARIABLES
    env,              \* os.environ: which API keys are set
    pdf,              \* what partition_pdf yields for self.pdf_path
    llm,              \* the outcomes the LLM collaborators can produce
    pc,               \* position of the constructor / object lifecycle
    err,              \* exception that escaped the constructor, or "none"
    chunks,           \* self.chunks
    texts,            \* self.texts
    tables,           \* self.tables
    images,           \* self.images
    text_summaries,   \* text_summaries (create_summary)
    table_summaries,  \* table_summaries (create_summary)
    image_summaries,  \* img_summaries (create_img_summary)
    count,            \* count (create_summary)
    log,              \* history: calls made to external collaborators
    retriever,        \* TRUE once vDB, docDB and retriever exist
    vDB,              \* summary collection (Chroma), in insertion order
    docDB,            \* content store (InMemoryStore): doc_id -> content
    uuids,            \* number of uuid4 values generated so far
    binds,            \* number of completed bind_data calls
    results           \* outcome of the last search of the index as it is now

vars == <<env, pdf, llm, pc, err, chunks, texts, tables, images,
          text_summaries, table_summaries, image_summaries, count, log,
          retriever, vDB, docDB, uuids, binds, results>>

----------------------------------------------------------------------------
(* Bounds of the model *)

MaxChunks == 2        \* chunks in a document of the main specification
MaxBinds == 2         \* bind_data calls on one object
MaxTopK == 2          \* largest top_k passed to search
MaxPaceTexts == 11    \* text chunks in a document of the pacing specification
MaxPaceTables == 2    \* table chunks in a document of the pacing specification

(* Program constant: `if count % 10 == 0` *)
SleepEvery == 10

----------------------------------------------------------------------------
(* Values *)

Str(s) == [str |-> s]

Raise == [exception |-> "APIError"]

Range(s) == {s[i] : i \in DOMAIN s}

Min(a, b) == IF a <= b THEN a ELSE b

(* Elements that may sit in CompositeElement.metadata.orig_elements. *)
NarrativeText == [type |-> "NarrativeText", image_base64 |-> Str("None")]

Image(b64) == [type |-> "Image", image_base64 |-> Str(b64)]

(* The orig_elements of a CompositeElement: no image, one image, two        *)
(* images around a non-image element.  Two chunks can hold the same image. *)
OrigSeqs ==
    { <<>>, <<Image("b1")>>, <<Image("b1"), NarrativeText, Image("b2")>> }

(* Chunk types produced with chunking_strategy="by_title". *)
ChunkShapes ==
    {[type |-> "CompositeElement", orig |-> o] : o \in OrigSeqs}
    \cup {[type |-> t, orig |-> <<>>] : t \in {"Table", "TableChunk"}}

(* Each element of a partition carries its own element id. *)
WithIds(d) ==
    [i \in 1..Len(d) |-> [type |-> d[i].type, id |-> i, orig |-> d[i].orig]]

Documents == {WithIds(d) : d \in UNION {[1..n -> ChunkShapes] : n \in 0..MaxChunks}}

(* Documents long enough for the pacing counter to reach SleepEvery. *)
PaceDoc(nt, ntab, img) ==
    WithIds([i \in 1..(nt + ntab) |->
        IF i <= nt
        THEN [type |-> "CompositeElement",
              orig |-> IF i = 1 /\ img
                       THEN <<Image("b1")>>
                       ELSE <<>>]
        ELSE [type |-> "Table", orig |-> <<>>]])

PaceDocuments ==
    {PaceDoc(nt, ntab, img) :
        nt \in 0..MaxPaceTexts, ntab \in 0..MaxPaceTables, img \in BOOLEAN}

(* What an LLM call can do: return a summary, return an empty string, raise. *)
Summaries == {Str("s1"), Str("")}

LlmOutcomes == Summaries \cup {Raise}

----------------------------------------------------------------------------
(* Constructor sequencing *)

(* Mutant: the image summaries are produced after the index is bound. *)
CtorOrderLateImages ==
    << "validate_keys", "partition_pdf", "get_text_tables", "get_imagesb64",
       "create_summary", "create_stores", "bind_data", "create_img_summary",
       "done" >>

CtorOrder ==
    << "validate_keys", "partition_pdf", "get_text_tables", "get_imagesb64",
       "create_summary", "create_img_summary", "create_stores", "bind_data",
       "done" >>

NextStage(s) ==
    CtorOrder[(CHOOSE i \in 1..Len(CtorOrder) : CtorOrder[i] = s) + 1]

(* Mutant: only the first credential is validated. *)
KeysValidTogetherOnly(e) == e.TOGETHER_API_KEY

(* `if not together_api_key` / `if not google_api_key` *)
KeysValid(e) == e.TOGETHER_API_KEY /\ e.GOOGLE_API_KEY

(* `"Table" in str(type(chunk))` and the like, on the type names in use. *)
TypeNameContains(sub, name) ==
    \/ sub = name
    \/ sub = "Table" /\ name = "TableChunk"

RECURSIVE Filter(_, _)
Filter(s, sub) ==
    IF s = <<>> THEN <<>>
    ELSE (IF TypeNameContains(sub, Head(s).type) THEN <<Head(s)>> ELSE <<>>)
         \o Filter(Tail(s), sub)

get_text_tables(cs) ==
    [texts |-> Filter(cs, "CompositeElement"), tables |-> Filter(cs, "Table")]

ImagesOf(chunk) ==
    LET imgs == Filter(chunk.orig, "Image")
    IN  [i \in 1..Len(imgs) |-> imgs[i].image_base64]

RECURSIVE get_imagesb64(_)
get_imagesb64(cs) ==
    IF cs = <<>> THEN <<>>
    ELSE (IF TypeNameContains("CompositeElement", Head(cs).type)
          THEN ImagesOf(Head(cs)) ELSE <<>>)
         \o get_imagesb64(Tail(cs))

----------------------------------------------------------------------------
(* The dual-representation index: bind_data *)

(* Mutant: the generator restarts for every list of identifiers. *)
uuid4Restart(issued, k) == k

(* The k-th uuid4 generated after `issued` earlier ones. *)
uuid4(issued, k) == issued + k

(* [str(uuid.uuid4()) for _ in xs] *)
NewIds(issued, xs) == [i \in 1..Len(xs) |-> uuid4(issued, i)]

(* Mutant: every summary of a group is tagged with the group's first id. *)
DocIdFirst(ids, i) == ids[1]

(* Mutant: off by one, summary i is tagged with the id of element i + 1. *)
DocIdShifted(ids, i) == ids[(i % Len(ids)) + 1]

(* metadata={self.id_key: doc_ids[i]} *)
DocIdFor(ids, i) == ids[i]

(* [Document(page_content=summary, metadata=...) for i, summary in enumerate(...)] *)
SummaryDocs(summaries, ids) ==
    [i \in 1..Len(summaries) |->
        [page_content |-> summaries[i], doc_id |-> DocIdFor(ids, i)]]

(* list(zip(a, b)) *)
Zip(a, b) == [i \in 1..Min(Len(a), Len(b)) |-> <<a[i], b[i]>>]

(* vectorstore.add_documents(docs): entries are appended, never merged by doc_id *)
add_documents(vs, docs) == vs \o docs

(* docstore.mset(pairs): dict assignment in order, the last pair of a key wins *)
mset(store, pairs) ==
    LET keys == {pairs[i][1] : i \in DOMAIN pairs}
        last(k) == CHOOSE i \in DOMAIN pairs :
                      /\ pairs[i][1] = k
                      /\ \A j \in DOMAIN pairs : pairs[j][1] = k => j <= i
    IN  [k \in (DOMAIN store) \cup keys |->
            IF k \in keys THEN pairs[last(k)][2] ELSE store[k]]

(* Mutant: the summaries, not the contents, are put in the content store. *)
BindGroupSummaries(st, summaries, contents) ==
    LET ids == NewIds(st.uuids, contents)
    IN  [vDB   |-> add_documents(st.vDB, SummaryDocs(summaries, ids)),
         docDB |-> mset(st.docDB, Zip(ids, summaries)),
         uuids |-> st.uuids + Len(contents)]

(* One id list / Document list / add_documents / mset group of bind_data. *)
BindGroup(st, summaries, contents) ==
    LET ids == NewIds(st.uuids, contents)
    IN  [vDB   |-> add_documents(st.vDB, SummaryDocs(summaries, ids)),
         docDB |-> mset(st.docDB, Zip(ids, contents)),
         uuids |-> st.uuids + Len(contents)]

(* Mutant: the tables are stored under the text ids (doc_ids for table_ids). *)
bind_dataCopyPaste ==
    LET s0 == [vDB |-> vDB, docDB |-> docDB, uuids |-> uuids]
        s1 == BindGroup(s0, text_summaries, texts)
        table_ids == NewIds(s1.uuids, tables)
        s2 == IF tables # <<>>
              THEN [vDB   |-> add_documents(s1.vDB,
                                            SummaryDocs(table_summaries, table_ids)),
                    docDB |-> mset(s1.docDB, Zip(NewIds(uuids, texts), tables)),
                    uuids |-> s1.uuids + Len(tables)]
              ELSE s1
    IN  BindGroup(s2, image_summaries, images)

(* Mutant: bind_data starts from new, empty stores. *)
bind_dataFreshStores ==
    LET s0 == [vDB |-> <<>>, docDB |-> <<>>, uuids |-> uuids]
        s1 == BindGroup(s0, text_summaries, texts)
        s2 == IF tables # <<>>
              THEN BindGroup(s1, table_summaries, tables)
              ELSE s1
    IN  BindGroup(s2, image_summaries, images)

bind_data ==
    LET s0 == [vDB |-> vDB, docDB |-> docDB, uuids |-> uuids]
        s1 == BindGroup(s0, text_summaries, texts)
        s2 == IF tables # <<>>
              THEN BindGroup(s1, table_summaries, tables)
              ELSE s1
    IN  BindGroup(s2, image_summaries, images)

----------------------------------------------------------------------------
(* search *)

NoResults == [status |-> "none", items |-> <<>>, query |-> <<>>, top_k |-> 0]

(* A query is characterised by how close each summary text is to it:       *)
(* q[1] is the closest text, q[2] the next one, and so on.                 *)
Queries == {q \in [1..Cardinality(Summaries) -> Summaries] : Range(q) = Summaries}

Dist(q, s) == CHOOSE k \in DOMAIN q : q[k] = s

RECURSIVE IdxOf(_, _, _)
IdxOf(vs, s, i) ==
    IF i > Len(vs) THEN <<>>
    ELSE (IF vs[i].page_content = s THEN <<i>> ELSE <<>>) \o IdxOf(vs, s, i + 1)

(* Positions of the summary collection, closest first; equal distances in   *)
(* insertion order.                                                         *)
RECURSIVE RankFrom(_, _, _)
RankFrom(q, vs, k) ==
    IF k > Len(q) THEN <<>>
    ELSE IdxOf(vs, q[k], 1) \o RankFrom(q, vs, k + 1)

nearestNeighbors(q, k) ==
    LET r == RankFrom(q, vDB, 1)
    IN  [i \in 1..Min(k, Len(r)) |-> vDB[r[i]].doc_id]

search(q, k) ==
    LET ids == nearestNeighbors(q, k)
    IN  IF \E i \in DOMAIN ids : ids[i] \notin DOMAIN docDB
        THEN [status |-> "DanglingIdentifierError", items |-> <<>>,
              query |-> q, top_k |-> k]
        ELSE [status |-> "ok",
              items |-> [i \in DOMAIN ids |->
                           [identifier |-> ids[i], content |-> docDB[ids[i]]]],
              query |-> q, top_k |-> k]

----------------------------------------------------------------------------
(* Initial states *)

InitObject ==
    /\ env \in [{"TOGETHER_API_KEY", "GOOGLE_API_KEY"} -> BOOLEAN]
    /\ pc = "validate_keys"
    /\ err = "none"
    /\ chunks = <<>>
    /\ texts = <<>>
    /\ tables = <<>>
    /\ images = <<>>
    /\ text_summaries = <<>>
    /\ table_summaries = <<>>
    /\ image_summaries = <<>>
    /\ count = 0
    /\ log = <<>>
    /\ retriever = FALSE
    /\ vDB = <<>>
    /\ docDB = <<>>
    /\ uuids = 0
    /\ binds = 0
    /\ results = NoResults

Init ==
    /\ pdf \in Documents
    /\ llm = LlmOutcomes
    /\ InitObject

InitPacing ==
    /\ pdf \in PaceDocuments
    /\ llm = {Str("s1"), Raise}
    /\ InitObject

----------------------------------------------------------------------------
(* Actions: the constructor *)

Fail(e) ==
    /\ pc' = "failed"
    /\ err' = e

(* lines 24-45: read the keys, validate them, build the LLM clients *)
ValidateKeys ==
    /\ pc = "validate_keys"
    /\ IF KeysValid(env)
       THEN pc' = NextStage("validate_keys") /\ err' = err
       ELSE Fail("ValueError")
    /\ UNCHANGED <<env, pdf, llm, chunks, texts, tables, images, text_summaries,
                   table_summaries, image_summaries, count, log, retriever,
                   vDB, docDB, uuids, binds, results>>

(* lines 47-59 *)
Partition ==
    /\ pc = "partition_pdf"
    /\ chunks' = pdf
    /\ log' = Append(log, [ev |-> "partition_pdf"])
    /\ pc' = NextStage("partition_pdf")
    /\ UNCHANGED <<env, pdf, llm, err, texts, tables, images, text_summaries,
                   table_summaries, image_summaries, count, retriever,
                   vDB, docDB, uuids, binds, results>>

(* line 60 *)
GetTextTables ==
    /\ pc = "get_text_tables"
    /\ texts' = get_text_tables(chunks).texts
    /\ tables' = get_text_tables(chunks).tables
    /\ pc' = NextStage("get_text_tables")
    /\ UNCHANGED <<env, pdf, llm, err, chunks, images, text_summaries,
                   table_summaries, image_summaries, count, log, retriever,
                   vDB, docDB, uuids, binds, results>>

(* line 61 *)
GetImages ==
    /\ pc = "get_imagesb64"
    /\ images' = get_imagesb64(chunks)
    /\ pc' = NextStage("get_imagesb64")
    /\ UNCHANGED <<env, pdf, llm, err, chunks, texts, tables, text_summaries,
                   table_summaries, image_summaries, count, log, retriever,
                   vDB, docDB, uuids, binds, results>>

Invoke(kind, element, out) == [ev |-> "invoke", kind |-> kind, input |-> element,
                               output |-> out]

Sleep == [ev |-> "sleep"]

(* `if count % 10 == 0: time.sleep(0.5)` with count already incremented *)
SleepsBefore(c) == IF c % SleepEvery = 0 THEN <<Sleep>> ELSE <<>>

(* lines 120-137: one iteration of the loop over self.texts *)
SummarizeText ==
    /\ pc = "create_summary"
    /\ Len(text_summaries) < Len(texts)
    /\ \E out \in llm :
         LET element == texts[Len(text_summaries) + 1]
         IN  /\ count' = count + 1
             /\ log' = log \o SleepsBefore(count + 1)
                           \o <<Invoke("text", element, out)>>
             /\ IF out = Raise
                THEN Fail("SummarizerError") /\ text_summaries' = text_summaries
                ELSE /\ text_summaries' = Append(text_summaries, out)
                     /\ pc' = pc
                     /\ err' = err
    /\ UNCHANGED <<env, pdf, llm, chunks, texts, tables, images,
                   table_summaries, image_summaries, retriever,
                   vDB, docDB, uuids, binds, results>>

(* lines 139-153: one iteration of the loop over self.tables *)
SummarizeTable ==
    /\ pc = "create_summary"
    /\ Len(text_summaries) = Len(texts)
    /\ Len(table_summaries) < Len(tables)
    /\ \E out \in llm :
         LET element == tables[Len(table_summaries) + 1]
         IN  /\ count' = count + 1
             /\ log' = Append(log, Invoke("table", element, out))
             /\ IF out = Raise
                THEN Fail("SummarizerError") /\ table_summaries' = table_summaries
                ELSE /\ table_summaries' = Append(table_summaries, out)
                     /\ pc' = pc
                     /\ err' = err
    /\ UNCHANGED <<env, pdf, llm, chunks, texts, tables, images,
                   text_summaries, image_summaries, retriever,
                   vDB, docDB, uuids, binds, results>>

(* line 155 / line 62: both loops are exhausted *)
SummaryReturn ==
    /\ pc = "create_summary"
    /\ Len(text_summaries) = Len(texts)
    /\ Len(table_summaries) = Len(tables)
    /\ pc' = NextStage("create_summary")
    /\ UNCHANGED <<env, pdf, llm, err, chunks, texts, tables, images,
                   text_summaries, table_summaries, image_summaries, count,
                   log, retriever, vDB, docDB, uuids, binds, results>>

(* lines 101-112: one iteration of the loop over self.images *)
SummarizeImage ==
    /\ pc = "create_img_summary"
    /\ Len(image_summaries) < Len(images)
    /\ \E out \in llm :
         LET element == images[Len(image_summaries) + 1]
         IN  /\ log' = Append(log, Invoke("image", element, out))
             /\ IF out = Raise
                THEN Fail("SummarizerError") /\ image_summaries' = image_summaries
                ELSE /\ image_summaries' = Append(image_summaries, out)
                     /\ pc' = pc
                     /\ err' = err
    /\ UNCHANGED <<env, pdf, llm, chunks, texts, tables, images,
                   text_summaries, table_summaries, count, retriever,
                   vDB, docDB, uuids, binds, results>>

(* line 113 / line 63 *)
ImgSummaryReturn ==
    /\ pc = "create_img_summary"
    /\ Len(image_summaries) = Len(images)
    /\ pc' = NextStage("create_img_summary")
    /\ UNCHANGED <<env, pdf, llm, err, chunks, texts, tables, images,
                   text_summaries, table_summaries, image_summaries, count,
                   log, retriever, vDB, docDB, uuids, binds, results>>

(* lines 65-72 *)
CreateStores ==
    /\ pc = "create_stores"
    /\ retriever' = TRUE
    /\ vDB' = <<>>
    /\ docDB' = <<>>
    /\ pc' = NextStage("create_stores")
    /\ UNCHANGED <<env, pdf, llm, err, chunks, texts, tables, images,
                   text_summaries, table_summaries, image_summaries, count,
                   log, uuids, binds, results>>

BindEffect ==
    /\ vDB' = bind_data.vDB
    /\ docDB' = bind_data.docDB
    /\ uuids' = bind_data.uuids
    /\ binds' = binds + 1

(* line 73: the constructor's call of bind_data *)
BindData ==
    /\ pc = "bind_data"
    /\ BindEffect
    /\ pc' = NextStage("bind_data")
    /\ UNCHANGED <<env, pdf, llm, err, chunks, texts, tables, images,
                   text_summaries, table_summaries, image_summaries, count,
                   log, retriever, results>>

----------------------------------------------------------------------------
(* Actions: the constructed object *)

(* bind_data called again on the constructed object: the same chunks are    *)
(* indexed a second time.  Results of searches of the previous index are   *)
(* no longer observed.                                                     *)
Reindex ==
    /\ pc = "done"
    /\ binds < MaxBinds
    /\ BindEffect
    /\ results' = NoResults
    /\ UNCHANGED <<env, pdf, llm, pc, err, chunks, texts, tables, images,
                   text_summaries, table_summaries, image_summaries, count,
                   log, retriever>>

Search ==
    /\ pc = "done"
    /\ \E q \in Queries, k \in 0..MaxTopK : results' = search(q, k)
    /\ UNCHANGED <<env, pdf, llm, pc, err, chunks, texts, tables, images,
                   text_summaries, table_summaries, image_summaries, count,
                   log, retriever, vDB, docDB, uuids, binds>>

Next ==
    \/ ValidateKeys
    \/ Partition
    \/ GetTextTables
    \/ GetImages
    \/ SummarizeText
    \/ SummarizeTable
    \/ SummaryReturn
    \/ SummarizeImage
    \/ ImgSummaryReturn
    \/ CreateStores
    \/ BindData
    \/ Reindex
    \/ Search

Spec == Init /\ [][Next]_vars

SpecPacing == InitPacing /\ [][Next]_vars

----------------------------------------------------------------------------
(* Properties *)

VdbIds == {vDB[i].doc_id : i \in DOMAIN vDB}

NChunks == Len(texts) + Len(tables) + Len(images)

AllContents == texts \o tables \o images

AllSummaries == text_summaries \o table_summaries \o image_summaries

(* The chunk whose summary is the idx-th entry of the summary collection. *)
ChunkAt(idx) == AllContents[((idx - 1) % NChunks) + 1]

RECURSIVE InvokesOf(_)
InvokesOf(l) ==
    IF l = <<>> THEN <<>>
    ELSE (IF Head(l).ev = "invoke" THEN <<Head(l)>> ELSE <<>>) \o InvokesOf(Tail(l))

RECURSIVE InvokePositions(_, _)
InvokePositions(l, i) ==
    IF i > Len(l) THEN <<>>
    ELSE (IF l[i].ev = "invoke" THEN <<i>> ELSE <<>>) \o InvokePositions(l, i + 1)

KindRank(kind) == CASE kind = "text" -> 1 [] kind = "table" -> 2 [] kind = "image" -> 3

KindAt(i) ==
    IF i <= Len(texts) THEN "text"
    ELSE IF i <= Len(texts) + Len(tables) THEN "table" ELSE "image"

(* C1: bijective linkage.  In every state the identifiers attached to the  *)
(* entries of the summary collection are exactly the keys of the content   *)
(* store, no identifier sits on two summary entries, and the two stores    *)
(* have the same number of entries.                                        *)
BijectiveLinkage ==
    /\ VdbIds = DOMAIN docDB
    /\ \A i, j \in DOMAIN vDB : vDB[i].doc_id = vDB[j].doc_id => i = j
    /\ Len(vDB) = Cardinality(DOMAIN docDB)

BijectiveLinkageWitness ==
    /\ binds = MaxBinds
    /\ texts # <<>> /\ tables # <<>> /\ images # <<>>
    /\ Len(vDB) = binds * NChunks
    /\ VdbIds = DOMAIN docDB

(* C2: identifiers are fresh.  Every step keeps the identifier of every    *)
(* existing summary entry, and every entry it adds carries an identifier   *)
(* that no earlier entry, no content-store key and no other added entry    *)
(* carries: within one bind_data call and across bind_data calls.          *)
IdentifiersFresh ==
    [][ /\ Len(vDB') >= Len(vDB)
        /\ \A i \in DOMAIN vDB : vDB'[i].doc_id = vDB[i].doc_id
        /\ \A j \in (Len(vDB) + 1)..Len(vDB') :
              /\ vDB'[j].doc_id \notin VdbIds \cup DOMAIN docDB
              /\ \A k \in (Len(vDB) + 1)..Len(vDB') :
                    vDB'[j].doc_id = vDB'[k].doc_id => j = k ]_vars

IdentifiersFreshWitness ==
    /\ binds = MaxBinds
    /\ Len(texts) >= 2
    /\ images # <<>>
    /\ Len(vDB) = binds * NChunks
    /\ {vDB[i].doc_id : i \in 1..NChunks}
         \cap {vDB[i].doc_id : i \in (NChunks + 1)..Len(vDB)} = {}

(* C3: a bind_data call over n chunks adds exactly n entries to the        *)
(* summary collection and n keys to the content store, and leaves every    *)
(* earlier entry (identifier, summary, content) as it was; with no chunks  *)
(* both stores are unchanged.                                              *)
IndexGrowsByInput ==
    [][ binds' = binds + 1 =>
          /\ Len(vDB') = Len(vDB) + NChunks
          /\ Cardinality(DOMAIN docDB') = Cardinality(DOMAIN docDB) + NChunks
          /\ SubSeq(vDB', 1, Len(vDB)) = vDB
          /\ \A k \in DOMAIN docDB : k \in DOMAIN docDB' /\ docDB'[k] = docDB[k]
          /\ (NChunks = 0 => vDB' = vDB /\ docDB' = docDB) ]_vars

IndexGrowsByInputWitness ==
    /\ binds = MaxBinds
    /\ NChunks >= 2
    /\ Len(vDB) = binds * NChunks
    /\ Cardinality(DOMAIN docDB) = binds * NChunks
    /\ \A i \in 1..NChunks : docDB[vDB[i].doc_id] = AllContents[i]

(* C4: search returns original content, never summaries.  After a search   *)
(* with top_k >= 1 over a non-empty index, the result is not an error, its *)
(* first element is the original content of the chunk whose summary is     *)
(* nearest to the query, and every element is an indexed chunk's content   *)
(* and not a summary of the summary collection.                            *)
SearchReturnsContent ==
    (results.status # "none" /\ results.top_k >= 1 /\ vDB # <<>>) =>
      LET r == RankFrom(results.query, vDB, 1)
      IN  /\ results.status = "ok"
          /\ results.items # <<>>
          /\ results.items[1].content = ChunkAt(r[1])
          /\ \A i \in DOMAIN results.items :
                /\ results.items[i].content \in Range(AllContents)
                /\ results.items[i].content
                      \notin {vDB[j].page_content : j \in DOMAIN vDB}

SearchReturnsContentWitness ==
    /\ results.status = "ok"
    /\ binds = MaxBinds
    /\ results.top_k >= 1
    /\ Len(vDB) >= 2
    /\ RankFrom(results.query, vDB, 1)[1] # 1
    /\ results.items[1].content = ChunkAt(RankFrom(results.query, vDB, 1)[1])

SummaryOf(id) == vDB[CHOOSE i \in DOMAIN vDB : vDB[i].doc_id = id].page_content

(* C5: a search returns at most top_k elements, they carry pairwise        *)
(* distinct identifiers of indexed chunks, they are ordered closest        *)
(* summary first, and top_k = 0 gives the empty sequence.                  *)
SearchBounded ==
    results.status # "none" =>
      /\ results.status = "ok"
      /\ Len(results.items) <= results.top_k
      /\ \A i, j \in DOMAIN results.items :
            results.items[i].identifier = results.items[j].identifier => i = j
      /\ \A i \in DOMAIN results.items :
            results.items[i].identifier \in VdbIds
      /\ \A i, j \in DOMAIN results.items :
            i < j => Dist(results.query, SummaryOf(results.items[i].identifier))
                       <= Dist(results.query, SummaryOf(results.items[j].identifier))
      /\ (results.top_k = 0 => results.items = <<>>)

SearchBoundedWitness ==
    /\ results.status = "ok"
    /\ results.top_k = MaxTopK
    /\ Len(vDB) > results.top_k
    /\ Len(results.items) = results.top_k
    /\ SummaryOf(results.items[1].identifier)
         # SummaryOf(results.items[Len(results.items)].identifier)

MissingCredential == ~env.TOGETHER_API_KEY \/ ~env.GOOGLE_API_KEY

(* C6: configuration errors fail fast.  With a credential missing the      *)
(* constructor never gets past validation, and when it has failed with the *)
(* configuration error no collaborator was called, nothing was partitioned *)
(* or summarised, and no store exists or holds an entry.                   *)
ConfigFailsFast ==
    /\ MissingCredential => pc \in {"validate_keys", "failed"}
    /\ (MissingCredential /\ pc = "failed") => err = "ValueError"
    /\ err = "ValueError" =>
          /\ log = <<>>
          /\ chunks = <<>>
          /\ count = 0
          /\ AllSummaries = <<>>
          /\ ~retriever
          /\ vDB = <<>>
          /\ docDB = <<>>

ConfigFailsFastWitness ==
    /\ env.TOGETHER_API_KEY
    /\ ~env.GOOGLE_API_KEY
    /\ pdf # <<>>
    /\ pc = "failed"
    /\ err = "ValueError"

(* C7: no malformed entry is indexed.  No entry of the summary collection  *)
(* has an empty summary.                                                   *)
NoEmptySummaryIndexed ==
    \A i \in DOMAIN vDB : vDB[i].page_content # Str("")

(* C8: rate-limit pacing.  For every k >= 1 with more than 10k summarizer  *)
(* calls made, a pause lies between the (10k)-th call and the (10k+1)-th   *)
(* call, whatever kind of chunk the calls summarise.                       *)
PauseAfterEveryTen ==
    LET pos == InvokePositions(log, 1)
    IN  \A k \in 1..Len(pos) :
          (k * SleepEvery + 1 <= Len(pos)) =>
             \E p \in (pos[k * SleepEvery] + 1)..(pos[k * SleepEvery + 1] - 1) :
                log[p].ev = "sleep"

(* C9: linkage pairs the right summary with the right content.  On the     *)
(* constructed object, for every bind_data call and every position i, the  *)
(* i-th entry the call added carries the summary the i-th summarizer call  *)
(* returned, that call was given the i-th chunk (texts, then tables, then  *)
(* images) and was of that chunk's kind, and the entry's identifier maps   *)
(* to that same chunk in the content store.                                *)
LinkagePairsSummaryWithContent ==
    pc = "done" =>
      LET calls == InvokesOf(log)
      IN  /\ Len(calls) = NChunks
          /\ Len(vDB) = binds * NChunks
          /\ \A b \in 0..(binds - 1) : \A i \in 1..NChunks :
                LET e == vDB[b * NChunks + i]
                IN  /\ e.page_content = calls[i].output
                    /\ calls[i].input = AllContents[i]
                    /\ calls[i].kind = KindAt(i)
                    /\ e.doc_id \in DOMAIN docDB
                    /\ docDB[e.doc_id] = calls[i].input

LinkagePairsWitness ==
    /\ pc = "done"
    /\ binds = MaxBinds
    /\ Len(texts) >= 1 /\ Len(tables) >= 1 /\ Len(images) >= 1
    /\ text_summaries[1] # image_summaries[1]
    /\ docDB[vDB[NChunks].doc_id] = images[Len(images)]
    /\ vDB[NChunks].page_content = image_summaries[Len(images)]

(* C10: ingestion ordering and all-or-nothing indexing.  In the call log   *)
(* text calls precede table calls, which precede image calls; a step that  *)
(* calls a summarizer finds and leaves both stores empty; and when a       *)
(* summarizer call has raised, both stores are empty.                      *)
IngestionOrdered ==
    [][ /\ (log' # log =>
               /\ LET calls == InvokesOf(log')
                  IN  \A i, j \in DOMAIN calls :
                         i < j => KindRank(calls[i].kind) <= KindRank(calls[j].kind)
               /\ vDB = <<>> /\ docDB = <<>>
               /\ vDB' = <<>> /\ docDB' = <<>>)
        /\ (err' = "SummarizerError" => vDB' = <<>> /\ docDB' = <<>>) ]_vars

IngestionOrderedWitness ==
    /\ err = "SummarizerError"
    /\ \E i, j, k \in DOMAIN log :
          /\ i < j /\ j < k
          /\ log[i].ev = "invoke" /\ log[i].kind = "text"
          /\ log[j].ev = "invoke" /\ log[j].kind = "table"
          /\ log[k].ev = "invoke" /\ log[k].kind = "image"
          /\ log[k].output = Raise
    /\ vDB = <<>>
    /\ docDB = <<>>

====
